---- MODULE Spec2Model ----
(***************************************************************************)
(* Fault-tolerant irrigation decision workflow.                            *)
(*                                                                         *)
(* Two implementations of the same LangGraph state machine are modelled:   *)
(*   impl = "base"      src/irrigation_agent.py                            *)
(*   impl = "enhanced"  src/irrigation_agent_enhanced.py                   *)
(*                                                                         *)
(* Moisture percentages are floats in the source; here they are integers   *)
(* in tenths of a percent (47.5% is 475, the physical range [0, 100] is    *)
(* 0..1000).  Optional values are sequences of length 0 (None) or 1.       *)
(* Message strings are sequences of word tokens, so that "the text         *)
(* mentions X" is membership of a token and "; ".join is concatenation     *)
(* with a ";" token between the parts.                                     *)
(***************************************************************************)
EXTENDS Integers, Sequences, FiniteSets, TLC

\* Largest retry limit an agent is constructed with.
MaxRetryLimit == 3

\* The wall clock is followed up to this reading.
MaxClock == 2

VARIABLES
    impl,                \* which source file the agent comes from
    max_sensor_retries,  \* IrrigationAgent.max_sensor_retries
    pc,                  \* position of the decide call in flight
    state,               \* the graph's AgentState of the call (None before the first call)
    reads,               \* sensor responses received so far in this call
    trace,               \* nodes executed so far in this call
    report,              \* DecisionOutput returned by this call (None until it returns)
    now,                 \* datetime.now(), read when the enhanced report is built
    prev,                \* the previous call on this agent, kept for comparison (or None)
    pc2,                 \* position of a second decide call running at the same time
    state2,              \* the AgentState of the second call
    reads2,              \* sensor responses received so far by the second call
    report2,             \* DecisionOutput returned by the second call
    overlap              \* the two calls in flight have read the sensor in turns

\* What belongs to the second call.
call2 == <<pc2, state2, reads2, report2>>

vars == <<impl, max_sensor_retries, pc, state, reads, trace, report, now, prev, call2, overlap>>

None == <<>>
Some(x) == <<x>>
Range(s) == {s[i] : i \in 1..Len(s)}

END == "__end__"

-----------------------------------------------------------------------------
(* Text formatting *)

Abs(x) == IF x < 0 THEN 0 - x ELSE x

\* str(int)
StrInt(n) == IF n < 0 THEN "-" \o ToString(0 - n) ELSE ToString(n)

\* f"{x:.1f}" of a value given in tenths: integer part, point, one digit.
Fmt1(x) ==
    (IF x < 0 THEN "-" ELSE "") \o ToString(Abs(x) \div 10) \o "." \o ToString(Abs(x) % 10)

\* f"{x}%" of a float given in tenths (repr keeps one decimal for these values).
Pct(x) == Fmt1(x) \o "%"

RECURSIVE Join(_)
\* "; ".join(errors)
Join(errs) ==
    IF Len(errs) = 0 THEN <<>>
    ELSE IF Len(errs) = 1 THEN errs[1]
    ELSE errs[1] \o <<";">> \o Join(Tail(errs))

-----------------------------------------------------------------------------
(* Collaborators *)

\* irrigation_agent_enhanced.py MockDatabase.FIELDS
\* FIELDS with the tomato field's minimum entered as 30.0.
FIELDS_low_min ==
    [id \in {1, 2, 12, 15, 20} |->
        CASE id = 1  -> [crop_type |-> "wheat",  min_moisture |-> 250, max_moisture |-> 450,
                         optimal_moisture |-> 350, soil_type |-> "loamy"]
          [] id = 2  -> [crop_type |-> "corn",   min_moisture |-> 300, max_moisture |-> 500,
                         optimal_moisture |-> 400, soil_type |-> "clay"]
          [] id = 12 -> [crop_type |-> "tomato", min_moisture |-> 300, max_moisture |-> 600,
                         optimal_moisture |-> 475, soil_type |-> "sandy-loam"]
          [] id = 15 -> [crop_type |-> "cotton", min_moisture |-> 200, max_moisture |-> 400,
                         optimal_moisture |-> 300, soil_type |-> "sandy"]
          [] id = 20 -> [crop_type |-> "potato", min_moisture |-> 400, max_moisture |-> 650,
                         optimal_moisture |-> 525, soil_type |-> "loamy"]]

FIELDS ==
    [id \in {1, 2, 12, 15, 20} |->
        CASE id = 1  -> [crop_type |-> "wheat",  min_moisture |-> 250, max_moisture |-> 450,
                         optimal_moisture |-> 350, soil_type |-> "loamy"]
          [] id = 2  -> [crop_type |-> "corn",   min_moisture |-> 300, max_moisture |-> 500,
                         optimal_moisture |-> 400, soil_type |-> "clay"]
          [] id = 12 -> [crop_type |-> "tomato", min_moisture |-> 350, max_moisture |-> 600,
                         optimal_moisture |-> 475, soil_type |-> "sandy-loam"]
          [] id = 15 -> [crop_type |-> "cotton", min_moisture |-> 200, max_moisture |-> 400,
                         optimal_moisture |-> 300, soil_type |-> "sandy"]
          [] id = 20 -> [crop_type |-> "potato", min_moisture |-> 400, max_moisture |-> 650,
                         optimal_moisture |-> 525, soil_type |-> "loamy"]]

\* irrigation_agent.py MockDatabase.FIELDS
FIELDS_base ==
    [id \in {1, 2, 12, 15, 20} |->
        CASE id = 1  -> [crop_type |-> "wheat",  min_moisture |-> 250, max_moisture |-> 450,
                         optimal_moisture |-> 350, soil_type |-> "loamy"]
          [] id = 2  -> [crop_type |-> "corn",   min_moisture |-> 300, max_moisture |-> 500,
                         optimal_moisture |-> 400, soil_type |-> "clay"]
          [] id = 12 -> [crop_type |-> "tomato", min_moisture |-> 350, max_moisture |-> 600,
                         optimal_moisture |-> 475, soil_type |-> "sandy-loam"]
          [] id = 15 -> [crop_type |-> "cotton", min_moisture |-> 200, max_moisture |-> 400,
                         optimal_moisture |-> 300, soil_type |-> "sandy"]
          [] id = 20 -> [crop_type |-> "potato", min_moisture |-> 400, max_moisture |-> 650,
                         optimal_moisture |-> 525, soil_type |-> "loamy"]]

\* FieldInfo(field_id=field_id, **data)
FieldInfo(fid, data) ==
    [field_id |-> fid, crop_type |-> data.crop_type, min_moisture |-> data.min_moisture,
     max_moisture |-> data.max_moisture, optimal_moisture |-> data.optimal_moisture,
     soil_type |-> data.soil_type]

\* enhanced MockDatabase.get_field_info
get_field_info(fid) ==
    IF fid \notin DOMAIN FIELDS THEN None ELSE Some(FieldInfo(fid, FIELDS[fid]))

\* base MockDatabase.get_field_info
get_field_info_base(fid) ==
    IF fid \notin DOMAIN FIELDS_base THEN None ELSE Some(FieldInfo(fid, FIELDS_base[fid]))

\* Field IDs a caller passes to decide: the table's, and some that are absent.
FieldIds == DOMAIN FIELDS \cup {0, 3, 999}

\* Thresholds around which readings are enumerated.
Marks ==
    UNION {{FIELDS[id].min_moisture, FIELDS[id].max_moisture, FIELDS[id].optimal_moisture}
           : id \in DOMAIN FIELDS}

\* MockSensorNetwork.CURRENT_READINGS
CURRENT_READINGS == [id \in {1, 2, 12, 15, 20} |->
    CASE id = 1 -> 285 [] id = 2 -> 452 [] id = 12 -> 321 [] id = 15 -> 358 [] id = 20 -> 553]

\* Values the sensor may return (tenths of a percent): the mock's hardware
\* error values, its nominal readings, the edges of the physical range, and
\* values at and around every threshold of the table, near and far.
SensorValues ==
    {-500, -999, 1500, 9990} \cup {-1, 0, 1, 999, 1000, 1001}
    \cup {CURRENT_READINGS[id] : id \in DOMAIN CURRENT_READINGS}
    \cup UNION {{m - 100, m - 99, m - 50, m - 49, m - 1, m, m + 1, m + 49, m + 50, m + 99, m + 100}
                : m \in Marks}

\* MockSensorNetwork.get_soil_moisture: None (no response) or a float.
get_soil_moisture == {None} \cup {Some(v) : v \in SensorValues}

\* Retry limits an agent may be constructed with (the constructor validates nothing).
RetryLimits == {-1, 0} \cup (1..MaxRetryLimit)

-----------------------------------------------------------------------------
(* LangGraph state *)

\* AgentState: every key is a last-value channel except errors, which is
\* Annotated[list[str], operator.add]: a node's update of errors is
\* concatenated to the channel's current value.
AgentState(s, update) ==
    [update EXCEPT !.errors = s.errors \o update.errors]

-----------------------------------------------------------------------------
(* Nodes and routing of irrigation_agent_enhanced.py *)

retrieve_field(s) ==
    LET field_info == get_field_info(s.field_id) IN
    IF field_info = None
    THEN [s EXCEPT !.errors = << <<"Field", StrInt(s.field_id), "not", "found">> >>,
                   !.stage = "failed"]
    ELSE [s EXCEPT !.field_info = field_info, !.stage = "field_ok"]

\* fetch_sensor that words the last timeout like the earlier ones.
fetch_sensor_same_message(s, reading) ==
    LET attempts == s.sensor_attempts + 1 IN
    IF reading = None
    THEN IF attempts < s.max_sensor_retries
         THEN [s EXCEPT !.sensor_attempts = attempts,
                        !.errors = << <<"Sensor", "timeout", "attempt", StrInt(attempts)>> >>,
                        !.stage = "retry"]
         ELSE [s EXCEPT !.sensor_attempts = attempts,
                        !.errors = << <<"Sensor", "timeout", "attempt", StrInt(attempts)>> >>,
                        !.stage = "failed"]
    ELSE IF reading[1] < 0 \/ reading[1] > 1000
         THEN [s EXCEPT !.moisture_reading = reading,
                        !.sensor_attempts = attempts,
                        !.errors = << <<"Invalid", "sensor", "value", Pct(reading[1])>> >>,
                        !.stage = "failed"]
         ELSE [s EXCEPT !.moisture_reading = reading,
                        !.sensor_attempts = attempts,
                        !.stage = "sensor_ok"]

\* fetch_sensor with the retry test off by one ("<=" for "<").
fetch_sensor_one_more(s, reading) ==
    LET attempts == s.sensor_attempts + 1 IN
    IF reading = None
    THEN IF attempts <= s.max_sensor_retries
         THEN [s EXCEPT !.sensor_attempts = attempts,
                        !.errors = << <<"Sensor", "timeout", "attempt", StrInt(attempts)>> >>,
                        !.stage = "retry"]
         ELSE [s EXCEPT !.sensor_attempts = attempts,
                        !.errors = << <<"Sensor", "timeout", "after", StrInt(attempts),
                                        "attempts">> >>,
                        !.stage = "failed"]
    ELSE IF reading[1] < 0 \/ reading[1] > 1000
         THEN [s EXCEPT !.moisture_reading = reading,
                        !.sensor_attempts = attempts,
                        !.errors = << <<"Invalid", "sensor", "value", Pct(reading[1])>> >>,
                        !.stage = "failed"]
         ELSE [s EXCEPT !.moisture_reading = reading,
                        !.sensor_attempts = attempts,
                        !.stage = "sensor_ok"]

\* fetch_sensor that retries an out-of-range value like a timeout.
fetch_sensor_retries_invalid(s, reading) ==
    LET attempts == s.sensor_attempts + 1 IN
    IF reading = None
    THEN IF attempts < s.max_sensor_retries
         THEN [s EXCEPT !.sensor_attempts = attempts,
                        !.errors = << <<"Sensor", "timeout", "attempt", StrInt(attempts)>> >>,
                        !.stage = "retry"]
         ELSE [s EXCEPT !.sensor_attempts = attempts,
                        !.errors = << <<"Sensor", "timeout", "after", StrInt(attempts),
                                        "attempts">> >>,
                        !.stage = "failed"]
    ELSE IF reading[1] < 0 \/ reading[1] > 1000
         THEN [s EXCEPT !.moisture_reading = reading,
                        !.sensor_attempts = attempts,
                        !.errors = << <<"Invalid", "sensor", "value", Pct(reading[1])>> >>,
                        !.stage = IF attempts < s.max_sensor_retries THEN "retry" ELSE "failed"]
         ELSE [s EXCEPT !.moisture_reading = reading,
                        !.sensor_attempts = attempts,
                        !.stage = "sensor_ok"]

\* fetch_sensor that clamps an out-of-range value into 0..100 before storing it.
fetch_sensor_clamps(s, reading) ==
    LET attempts == s.sensor_attempts + 1 IN
    IF reading = None
    THEN IF attempts < s.max_sensor_retries
         THEN [s EXCEPT !.sensor_attempts = attempts,
                        !.errors = << <<"Sensor", "timeout", "attempt", StrInt(attempts)>> >>,
                        !.stage = "retry"]
         ELSE [s EXCEPT !.sensor_attempts = attempts,
                        !.errors = << <<"Sensor", "timeout", "after", StrInt(attempts),
                                        "attempts">> >>,
                        !.stage = "failed"]
    ELSE IF reading[1] < 0 \/ reading[1] > 1000
         THEN [s EXCEPT !.moisture_reading = Some(IF reading[1] < 0 THEN 0 ELSE 1000),
                        !.sensor_attempts = attempts,
                        !.errors = << <<"Invalid", "sensor", "value", Pct(reading[1])>> >>,
                        !.stage = "failed"]
         ELSE [s EXCEPT !.moisture_reading = reading,
                        !.sensor_attempts = attempts,
                        !.stage = "sensor_ok"]

\* fetch_sensor that stores 0.0 as the reading when the sensor does not answer.
fetch_sensor_timeout_zero(s, reading) ==
    LET attempts == s.sensor_attempts + 1 IN
    IF reading = None
    THEN IF attempts < s.max_sensor_retries
         THEN [s EXCEPT !.moisture_reading = Some(0),
                        !.sensor_attempts = attempts,
                        !.errors = << <<"Sensor", "timeout", "attempt", StrInt(attempts)>> >>,
                        !.stage = "retry"]
         ELSE [s EXCEPT !.moisture_reading = Some(0),
                        !.sensor_attempts = attempts,
                        !.errors = << <<"Sensor", "timeout", "after", StrInt(attempts),
                                        "attempts">> >>,
                        !.stage = "failed"]
    ELSE IF reading[1] < 0 \/ reading[1] > 1000
         THEN [s EXCEPT !.moisture_reading = reading,
                        !.sensor_attempts = attempts,
                        !.errors = << <<"Invalid", "sensor", "value", Pct(reading[1])>> >>,
                        !.stage = "failed"]
         ELSE [s EXCEPT !.moisture_reading = reading,
                        !.sensor_attempts = attempts,
                        !.stage = "sensor_ok"]

fetch_sensor(s, reading) ==
    LET attempts == s.sensor_attempts + 1 IN
    IF reading = None
    THEN IF attempts < s.max_sensor_retries
         THEN [s EXCEPT !.sensor_attempts = attempts,
                        !.errors = << <<"Sensor", "timeout", "attempt", StrInt(attempts)>> >>,
                        !.stage = "retry"]
         ELSE [s EXCEPT !.sensor_attempts = attempts,
                        !.errors = << <<"Sensor", "timeout", "after", StrInt(attempts),
                                        "attempts">> >>,
                        !.stage = "failed"]
    ELSE IF reading[1] < 0 \/ reading[1] > 1000
         THEN [s EXCEPT !.moisture_reading = reading,
                        !.sensor_attempts = attempts,
                        !.errors = << <<"Invalid", "sensor", "value", Pct(reading[1])>> >>,
                        !.stage = "failed"]
         ELSE [s EXCEPT !.moisture_reading = reading,
                        !.sensor_attempts = attempts,
                        !.stage = "sensor_ok"]

\* validate dereferences field_info and compares moisture_reading with floats:
\* with either unset Python raises (AttributeError / TypeError).
validate_raises(s) == s.field_info = None \/ s.moisture_reading = None

\* validate that tests the optimal point before the minimum.
validate_optimal_first(s) ==
    LET field == s.field_info[1]
        moisture == s.moisture_reading[1]
    IN  IF moisture > field.max_moisture
        THEN [s EXCEPT !.decision = Some("DO_NOT_IRRIGATE"),
                       !.reason = <<"Moisture", Pct(moisture), "above", "maximum",
                                    Pct(field.max_moisture)>>,
                       !.stage = "done"]
        ELSE IF moisture < field.optimal_moisture
        THEN [s EXCEPT !.decision = Some("IRRIGATE"),
                       !.reason = <<"Moisture", Pct(moisture), "below", "optimal",
                                    Pct(field.optimal_moisture)>>,
                       !.stage = "done"]
        ELSE IF moisture < field.min_moisture
        THEN [s EXCEPT !.decision = Some("IRRIGATE"),
                       !.reason = <<"Moisture", Pct(moisture), "below", "minimum",
                                    Pct(field.min_moisture)>>,
                       !.stage = "done"]
        ELSE [s EXCEPT !.decision = Some("DO_NOT_IRRIGATE"),
                       !.reason = <<"Moisture", Pct(moisture), "within", "optimal", "range">>,
                       !.stage = "done"]

validate(s) ==
    LET field == s.field_info[1]
        moisture == s.moisture_reading[1]
    IN  IF moisture < field.min_moisture
        THEN [s EXCEPT !.decision = Some("IRRIGATE"),
                       !.reason = <<"Moisture", Pct(moisture), "below", "minimum",
                                    Pct(field.min_moisture)>>,
                       !.stage = "done"]
        ELSE IF moisture > field.max_moisture
        THEN [s EXCEPT !.decision = Some("DO_NOT_IRRIGATE"),
                       !.reason = <<"Moisture", Pct(moisture), "above", "maximum",
                                    Pct(field.max_moisture)>>,
                       !.stage = "done"]
        ELSE IF moisture < field.optimal_moisture
        THEN [s EXCEPT !.decision = Some("IRRIGATE"),
                       !.reason = <<"Moisture", Pct(moisture), "below", "optimal",
                                    Pct(field.optimal_moisture)>>,
                       !.stage = "done"]
        ELSE [s EXCEPT !.decision = Some("DO_NOT_IRRIGATE"),
                       !.reason = <<"Moisture", Pct(moisture), "within", "optimal", "range">>,
                       !.stage = "done"]

\* maintenance that reports only the last error.
maintenance_last_error(s) ==
    LET error_summary == s.errors[Len(s.errors)] IN
    [s EXCEPT !.decision = Some("MAINTENANCE_REQUIRED"),
              !.reason = error_summary,
              !.stage = "done"]

maintenance(s) ==
    LET error_summary == Join(s.errors) IN
    [s EXCEPT !.decision = Some("MAINTENANCE_REQUIRED"),
              !.reason = error_summary,
              !.stage = "done"]

\* route_after_field that sends every lookup on to the sensor.
route_after_field_always_fetch(s) == "fetch_sensor"

route_after_field(s) ==
    IF s.stage = "failed" THEN "maintenance" ELSE "fetch_sensor"

\* route_after_sensor without the retry branch.
route_after_sensor_no_retry(s) ==
    IF s.stage = "failed" THEN "maintenance"
    ELSE "validate"

\* route_after_sensor that treats any recorded error as a failure.
route_after_sensor_errors_fail(s) ==
    IF s.stage = "retry" THEN "fetch_sensor"
    ELSE IF s.stage = "failed" \/ s.errors # <<>> THEN "maintenance"
    ELSE "validate"

route_after_sensor(s) ==
    IF s.stage = "retry" THEN "fetch_sensor"
    ELSE IF s.stage = "failed" THEN "maintenance"
    ELSE "validate"

\* calculate_confidence without the absolute value.
calculate_confidence_signed(decision, moisture, field_info) ==
    IF decision = Some("MAINTENANCE_REQUIRED") THEN "N/A"
    ELSE IF moisture = None \/ field_info = None THEN "LOW"
    ELSE LET optimal == field_info[1].optimal_moisture
             diff == moisture[1] - optimal
         IN  IF diff < 50 THEN "HIGH"
             ELSE IF diff < 100 THEN "MEDIUM"
             ELSE "LOW"

calculate_confidence(decision, moisture, field_info) ==
    IF decision = Some("MAINTENANCE_REQUIRED") THEN "N/A"
    ELSE IF moisture = None \/ field_info = None THEN "LOW"
    ELSE LET optimal == field_info[1].optimal_moisture
             diff == Abs(moisture[1] - optimal)
         IN  IF diff < 50 THEN "HIGH"
             ELSE IF diff < 100 THEN "MEDIUM"
             ELSE "LOW"

\* The graph with validate wired on to maintenance instead of END.
build_agent_validate_to_maintenance(node, s) ==
    CASE node = "__start__"      -> "retrieve_field"
      [] node = "retrieve_field" -> route_after_field(s)
      [] node = "fetch_sensor"   -> route_after_sensor(s)
      [] node = "validate"       -> "maintenance"
      [] node = "maintenance"    -> END

\* The compiled graph: the node that runs after `node` left the state s
\* ("__start__" is the entry point).
build_agent(node, s) ==
    CASE node = "__start__"      -> "retrieve_field"
      [] node = "retrieve_field" -> route_after_field(s)
      [] node = "fetch_sensor"   -> route_after_sensor(s)
      [] node = "validate"       -> END
      [] node = "maintenance"    -> END


-----------------------------------------------------------------------------
(* Nodes and routing of irrigation_agent.py *)

retrieve_field_data(s) ==
    LET field_info == get_field_info_base(s.field_id) IN
    IF field_info = None
    THEN [s EXCEPT !.field_info = None,
                   !.errors = << <<"Field", "#" \o StrInt(s.field_id), "not", "found",
                                   "in", "database">> >>,
                   !.stage = "field_lookup_failed"]
    ELSE [s EXCEPT !.field_info = field_info, !.stage = "field_data_retrieved"]

\* fetch_sensor_data that gives up one attempt early.
fetch_sensor_data_early(s, reading) ==
    LET attempts == s.sensor_attempts + 1 IN
    IF reading = None
    THEN IF attempts + 1 < s.max_sensor_retries
         THEN [s EXCEPT !.sensor_attempts = attempts,
                        !.errors = << <<"Sensor", "timeout", "on", "attempt",
                                        StrInt(attempts)>> >>,
                        !.stage = "sensor_retry"]
         ELSE [s EXCEPT !.sensor_attempts = attempts,
                        !.errors = << <<"Sensor", "timeout", "after", StrInt(attempts),
                                        "attempts">> >>,
                        !.stage = "sensor_failed"]
    ELSE IF reading[1] < 0 \/ reading[1] > 1000
         THEN [s EXCEPT !.moisture_reading = reading,
                        !.sensor_attempts = attempts,
                        !.errors = << <<"Sensor", "hardware", "error:", "impossible", "value",
                                        Pct(reading[1])>> >>,
                        !.stage = "sensor_hardware_error"]
         ELSE [s EXCEPT !.moisture_reading = reading,
                        !.sensor_attempts = attempts,
                        !.stage = "sensor_data_retrieved"]

\* fetch_sensor_data that checks only the lower end of the physical range.
fetch_sensor_data_no_upper(s, reading) ==
    LET attempts == s.sensor_attempts + 1 IN
    IF reading = None
    THEN IF attempts < s.max_sensor_retries
         THEN [s EXCEPT !.sensor_attempts = attempts,
                        !.errors = << <<"Sensor", "timeout", "on", "attempt",
                                        StrInt(attempts)>> >>,
                        !.stage = "sensor_retry"]
         ELSE [s EXCEPT !.sensor_attempts = attempts,
                        !.errors = << <<"Sensor", "timeout", "after", StrInt(attempts),
                                        "attempts">> >>,
                        !.stage = "sensor_failed"]
    ELSE IF reading[1] < 0
         THEN [s EXCEPT !.moisture_reading = reading,
                        !.sensor_attempts = attempts,
                        !.errors = << <<"Sensor", "hardware", "error:", "impossible", "value",
                                        Pct(reading[1])>> >>,
                        !.stage = "sensor_hardware_error"]
         ELSE [s EXCEPT !.moisture_reading = reading,
                        !.sensor_attempts = attempts,
                        !.stage = "sensor_data_retrieved"]

\* fetch_sensor_data that does not count a read that returned a valid value.
fetch_sensor_data_uncounted(s, reading) ==
    LET attempts == s.sensor_attempts + 1 IN
    IF reading = None
    THEN IF attempts < s.max_sensor_retries
         THEN [s EXCEPT !.sensor_attempts = attempts,
                        !.errors = << <<"Sensor", "timeout", "on", "attempt",
                                        StrInt(attempts)>> >>,
                        !.stage = "sensor_retry"]
         ELSE [s EXCEPT !.sensor_attempts = attempts,
                        !.errors = << <<"Sensor", "timeout", "after", StrInt(attempts),
                                        "attempts">> >>,
                        !.stage = "sensor_failed"]
    ELSE IF reading[1] < 0 \/ reading[1] > 1000
         THEN [s EXCEPT !.moisture_reading = reading,
                        !.sensor_attempts = attempts,
                        !.errors = << <<"Sensor", "hardware", "error:", "impossible", "value",
                                        Pct(reading[1])>> >>,
                        !.stage = "sensor_hardware_error"]
         ELSE [s EXCEPT !.moisture_reading = reading,
                        !.stage = "sensor_data_retrieved"]

\* fetch_sensor_data that takes a limit of 0 or less to mean "no limit".
fetch_sensor_data_unlimited(s, reading) ==
    LET attempts == s.sensor_attempts + 1 IN
    IF reading = None
    THEN IF s.max_sensor_retries <= 0 \/ attempts < s.max_sensor_retries
         THEN [s EXCEPT !.sensor_attempts = attempts,
                        !.errors = << <<"Sensor", "timeout", "on", "attempt",
                                        StrInt(attempts)>> >>,
                        !.stage = "sensor_retry"]
         ELSE [s EXCEPT !.sensor_attempts = attempts,
                        !.errors = << <<"Sensor", "timeout", "after", StrInt(attempts),
                                        "attempts">> >>,
                        !.stage = "sensor_failed"]
    ELSE IF reading[1] < 0 \/ reading[1] > 1000
         THEN [s EXCEPT !.moisture_reading = reading,
                        !.sensor_attempts = attempts,
                        !.errors = << <<"Sensor", "hardware", "error:", "impossible", "value",
                                        Pct(reading[1])>> >>,
                        !.stage = "sensor_hardware_error"]
         ELSE [s EXCEPT !.moisture_reading = reading,
                        !.sensor_attempts = attempts,
                        !.stage = "sensor_data_retrieved"]

fetch_sensor_data(s, reading) ==
    LET attempts == s.sensor_attempts + 1 IN
    IF reading = None
    THEN IF attempts < s.max_sensor_retries
         THEN [s EXCEPT !.sensor_attempts = attempts,
                        !.errors = << <<"Sensor", "timeout", "on", "attempt",
                                        StrInt(attempts)>> >>,
                        !.stage = "sensor_retry"]
         ELSE [s EXCEPT !.sensor_attempts = attempts,
                        !.errors = << <<"Sensor", "timeout", "after", StrInt(attempts),
                                        "attempts">> >>,
                        !.stage = "sensor_failed"]
    ELSE IF reading[1] < 0 \/ reading[1] > 1000
         THEN [s EXCEPT !.moisture_reading = reading,
                        !.sensor_attempts = attempts,
                        !.errors = << <<"Sensor", "hardware", "error:", "impossible", "value",
                                        Pct(reading[1])>> >>,
                        !.stage = "sensor_hardware_error"]
         ELSE [s EXCEPT !.moisture_reading = reading,
                        !.sensor_attempts = attempts,
                        !.stage = "sensor_data_retrieved"]

\* validate_and_decide formats moisture_reading and dereferences field_info
\* before deciding: with either unset Python raises.
validate_and_decide_raises(s) == s.field_info = None \/ s.moisture_reading = None

\* The local `confidence` validate_and_decide assigns next to decision and reason;
\* the node's return value does not include it.
validate_and_decide_confidence(s) ==
    LET field_info == s.field_info[1]
        moisture == s.moisture_reading[1]
    IN  IF moisture < field_info.min_moisture THEN "HIGH"
        ELSE IF moisture > field_info.max_moisture THEN "HIGH"
        ELSE IF moisture < field_info.optimal_moisture THEN "MEDIUM"
        ELSE "HIGH"

\* validate_and_decide with inclusive comparisons at the maximum and the optimum.
validate_and_decide_inclusive(s) ==
    LET field_info == s.field_info[1]
        moisture == s.moisture_reading[1]
    IN  IF moisture < field_info.min_moisture
        THEN [s EXCEPT !.decision = Some("IRRIGATE"),
                       !.reason = <<"Moisture", Pct(moisture), "is", "below", "minimum",
                                    "threshold", Pct(field_info.min_moisture)>>,
                       !.stage = "decision_made"]
        ELSE IF moisture >= field_info.max_moisture
        THEN [s EXCEPT !.decision = Some("DO_NOT_IRRIGATE"),
                       !.reason = <<"Moisture", Pct(moisture), "exceeds", "maximum",
                                    "threshold", Pct(field_info.max_moisture)>>,
                       !.stage = "decision_made"]
        ELSE IF moisture <= field_info.optimal_moisture
        THEN [s EXCEPT !.decision = Some("IRRIGATE"),
                       !.reason = <<"Moisture", Pct(moisture), "is", "within", "range", "but",
                                    "below", "optimal", Pct(field_info.optimal_moisture)>>,
                       !.stage = "decision_made"]
        ELSE [s EXCEPT !.decision = Some("DO_NOT_IRRIGATE"),
                       !.reason = <<"Moisture", Pct(moisture), "is", "optimal", "(target:",
                                    Pct(field_info.optimal_moisture) \o ")">>,
                       !.stage = "decision_made"]

validate_and_decide(s) ==
    LET field_info == s.field_info[1]
        moisture == s.moisture_reading[1]
    IN  IF moisture < field_info.min_moisture
        THEN [s EXCEPT !.decision = Some("IRRIGATE"),
                       !.reason = <<"Moisture", Pct(moisture), "is", "below", "minimum",
                                    "threshold", Pct(field_info.min_moisture)>>,
                       !.stage = "decision_made"]
        ELSE IF moisture > field_info.max_moisture
        THEN [s EXCEPT !.decision = Some("DO_NOT_IRRIGATE"),
                       !.reason = <<"Moisture", Pct(moisture), "exceeds", "maximum",
                                    "threshold", Pct(field_info.max_moisture)>>,
                       !.stage = "decision_made"]
        ELSE IF moisture < field_info.optimal_moisture
        THEN [s EXCEPT !.decision = Some("IRRIGATE"),
                       !.reason = <<"Moisture", Pct(moisture), "is", "within", "range", "but",
                                    "below", "optimal", Pct(field_info.optimal_moisture)>>,
                       !.stage = "decision_made"]
        ELSE [s EXCEPT !.decision = Some("DO_NOT_IRRIGATE"),
                       !.reason = <<"Moisture", Pct(moisture), "is", "optimal", "(target:",
                                    Pct(field_info.optimal_moisture) \o ")">>,
                       !.stage = "decision_made"]

\* handle_maintenance_required that drops the stored reading.
handle_maintenance_required_drops_reading(s) ==
    LET error_summary == Join(s.errors) IN
    [s EXCEPT !.decision = Some("MAINTENANCE_REQUIRED"),
              !.moisture_reading = None,
              !.reason = <<"System", "error", "requires", "manual", "intervention:">>
                         \o error_summary,
              !.stage = "maintenance_mode"]

handle_maintenance_required(s) ==
    LET error_summary == Join(s.errors) IN
    [s EXCEPT !.decision = Some("MAINTENANCE_REQUIRED"),
              !.reason = <<"System", "error", "requires", "manual", "intervention:">>
                         \o error_summary,
              !.stage = "maintenance_mode"]

\* route_after_field_lookup that tests the other file's stage name.
route_after_field_lookup_wrong_stage(s) ==
    IF s.stage = "failed" THEN "maintenance" ELSE "fetch_sensor"

route_after_field_lookup(s) ==
    IF s.stage = "field_lookup_failed" THEN "maintenance" ELSE "fetch_sensor"

\* route_after_sensor that lets a hardware error through to validate.
route_after_sensor_base_hw_validate(s) ==
    IF s.stage = "sensor_retry" THEN "retry_sensor"
    ELSE IF s.stage = "sensor_failed" THEN "maintenance"
    ELSE "validate"

\* route_after_sensor that sends exhausted retries back to the sensor.
route_after_sensor_base_loops(s) ==
    IF s.stage = "sensor_retry" \/ s.stage = "sensor_failed" THEN "retry_sensor"
    ELSE IF s.stage = "sensor_hardware_error" THEN "maintenance"
    ELSE "validate"

route_after_sensor_base(s) ==
    IF s.stage = "sensor_retry" THEN "retry_sensor"
    ELSE IF s.stage = "sensor_failed" \/ s.stage = "sensor_hardware_error" THEN "maintenance"
    ELSE "validate"

\* The compiled graph of irrigation_agent.py; the conditional edge after
\* fetch_sensor maps the router's "retry_sensor" back to fetch_sensor.
build_irrigation_agent(node, s) ==
    CASE node = "__start__"      -> "retrieve_field"
      [] node = "retrieve_field" -> route_after_field_lookup(s)
      [] node = "fetch_sensor"   ->
            LET r == route_after_sensor_base(s) IN
            IF r = "retry_sensor" THEN "fetch_sensor" ELSE r
      [] node = "validate"       -> END
      [] node = "maintenance"    -> END


-----------------------------------------------------------------------------
(* IrrigationAgent.decide *)

\* initial_state that starts from the errors and the attempt count the agent had left.
initial_state_kept(field_id, retries) ==
    [field_id |-> field_id, field_info |-> None, moisture_reading |-> None,
     decision |-> None, reason |-> <<>>,
     errors |-> IF state # None THEN state[1].errors ELSE <<>>,
     sensor_attempts |-> IF state # None THEN state[1].sensor_attempts ELSE 0,
     max_sensor_retries |-> retries, stage |-> "init"]

\* enhanced decide: initial_state
initial_state(field_id, retries) ==
    [field_id |-> field_id, field_info |-> None, moisture_reading |-> None,
     decision |-> None, reason |-> <<>>, errors |-> <<>>, sensor_attempts |-> 0,
     max_sensor_retries |-> retries, stage |-> "init"]

\* base decide: initial_state
initial_state_base(field_id, retries) ==
    [field_id |-> field_id, field_info |-> None, moisture_reading |-> None,
     decision |-> None, reason |-> <<>>, errors |-> <<>>, sensor_attempts |-> 0,
     max_sensor_retries |-> retries, stage |-> "initialized"]

\* optimal_range that ends at the optimal point instead of the maximum.
optimal_range_to_optimal(final_state) ==
    IF final_state.field_info # None
    THEN Some(<<final_state.field_info[1].min_moisture,
                final_state.field_info[1].optimal_moisture>>)
    ELSE None

\* optimal_range=(min, max) if final_state.get("field_info") else None
optimal_range(final_state) ==
    IF final_state.field_info # None
    THEN Some(<<final_state.field_info[1].min_moisture, final_state.field_info[1].max_moisture>>)
    ELSE None

\* DecisionOutput requires a decision: pydantic rejects None.
DecisionOutput_raises(final_state) == final_state.decision = None

\* enhanced decide: DecisionOutput(...)
DecisionOutput(field_id, final_state) ==
    [field_id |-> field_id,
     decision |-> final_state.decision[1],
     current_moisture |-> final_state.moisture_reading,
     optimal_range |-> optimal_range(final_state),
     reason |-> final_state.reason,
     confidence |-> calculate_confidence(final_state.decision, final_state.moisture_reading,
                                         final_state.field_info),
     sensor_attempts |-> final_state.sensor_attempts,
     timestamp |-> now,
     errors |-> final_state.errors]

\* DecisionOutput that leaves the reading out of the report.
DecisionOutput_base_no_moisture(field_id, final_state) ==
    [field_id |-> field_id,
     decision |-> final_state.decision[1],
     current_moisture |-> None,
     optimal_range |-> optimal_range(final_state),
     reason |-> final_state.reason,
     confidence |-> IF final_state.decision # Some("MAINTENANCE_REQUIRED") THEN "HIGH"
                    ELSE "N/A",
     sensor_attempts |-> final_state.sensor_attempts,
     errors |-> final_state.errors]

\* base decide: DecisionOutput(...)
DecisionOutput_base(field_id, final_state) ==
    [field_id |-> field_id,
     decision |-> final_state.decision[1],
     current_moisture |-> final_state.moisture_reading,
     optimal_range |-> optimal_range(final_state),
     reason |-> final_state.reason,
     confidence |-> IF final_state.decision # Some("MAINTENANCE_REQUIRED") THEN "HIGH"
                    ELSE "N/A",
     sensor_attempts |-> final_state.sensor_attempts,
     errors |-> final_state.errors]

-----------------------------------------------------------------------------
(* The state machine *)

\* The AgentState of the call in flight.
st == state[1]

\* Next node of the agent's compiled graph.
Graph(node, s) ==
    IF impl = "enhanced" THEN build_agent(node, s) ELSE build_irrigation_agent(node, s)

\* No call reads the sensor more often than this; the guard of FetchSensor
\* keeps the state space finite and never blocks a read the code would make.
MaxReads == MaxRetryLimit + 1

\* IrrigationAgent.__init__: any integer is accepted as the retry limit.
Init ==
    /\ impl \in {"base", "enhanced"}
    /\ max_sensor_retries \in RetryLimits
    /\ pc = "idle"
    /\ state = None
    /\ reads = <<>>
    /\ trace = <<>>
    /\ report = None
    /\ now = 0
    /\ prev = None
    /\ pc2 = "idle"
    /\ state2 = None
    /\ reads2 = <<>>
    /\ report2 = None
    /\ overlap = FALSE

\* decide(field_id) up to graph.invoke: a fresh AgentState enters the graph.
Invoke(field_id) ==
    /\ pc \in {"idle", "returned", "raised"}
    /\ LET s0 == IF impl = "enhanced" THEN initial_state(field_id, max_sensor_retries)
                 ELSE initial_state_base(field_id, max_sensor_retries)
       IN  /\ state' = Some(s0)
           /\ pc' = Graph("__start__", s0)
    /\ reads' = <<>>
    /\ trace' = <<>>
    /\ report' = None
    /\ overlap' = FALSE
    /\ UNCHANGED <<impl, max_sensor_retries, now, call2>>

\* A decide call; the caller keeps nothing of the call before.
Decide(field_id) ==
    /\ Invoke(field_id)
    /\ UNCHANGED prev

\* Node retrieve_field, its update merged into the state, then the conditional edge.
RetrieveField ==
    /\ pc = "retrieve_field"
    /\ LET update == IF impl = "enhanced" THEN retrieve_field(st) ELSE retrieve_field_data(st)
           s1 == AgentState(st, update)
       IN  /\ state' = Some(s1)
           /\ pc' = Graph("retrieve_field", s1)
    /\ trace' = Append(trace, "retrieve_field")
    /\ UNCHANGED <<impl, max_sensor_retries, reads, report, now, prev, call2, overlap>>

\* Node fetch_sensor with the sensor answering `reading`: merge, conditional edge
\* (possibly back here).
ReadSensor(reading) ==
    /\ pc = "fetch_sensor"
    /\ Len(reads) < MaxReads
    /\ LET update == IF impl = "enhanced" THEN fetch_sensor(st, reading)
                     ELSE fetch_sensor_data(st, reading)
           s1 == AgentState(st, update)
       IN  /\ state' = Some(s1)
           /\ pc' = Graph("fetch_sensor", s1)
           /\ reads' = Append(reads, reading)
    /\ trace' = Append(trace, "fetch_sensor")
    /\ overlap' = (overlap \/ (pc2 = "fetch_sensor" /\ reads2 # <<>>))
    /\ UNCHANGED <<impl, max_sensor_retries, report, now, prev, call2>>

\* Node fetch_sensor: one sensor read, whatever the sensor answers.
FetchSensor == \E reading \in get_soil_moisture : ReadSensor(reading)

\* Node validate, then the edge to END; a Python error leaves decide.
Validate ==
    /\ pc = "validate"
    /\ IF (IF impl = "enhanced" THEN validate_raises(st) ELSE validate_and_decide_raises(st))
       THEN /\ pc' = "raised"
            /\ state' = state
       ELSE LET update == IF impl = "enhanced" THEN validate(st) ELSE validate_and_decide(st)
                s1 == AgentState(st, update)
            IN  /\ state' = Some(s1)
                /\ pc' = Graph("validate", s1)
    /\ trace' = Append(trace, "validate")
    /\ UNCHANGED <<impl, max_sensor_retries, reads, report, now, prev, call2, overlap>>

\* Node maintenance, then the edge to END.
Maintenance ==
    /\ pc = "maintenance"
    /\ LET update == IF impl = "enhanced" THEN maintenance(st)
                     ELSE handle_maintenance_required(st)
           s1 == AgentState(st, update)
       IN  /\ state' = Some(s1)
           /\ pc' = Graph("maintenance", s1)
    /\ trace' = Append(trace, "maintenance")
    /\ UNCHANGED <<impl, max_sensor_retries, reads, report, now, prev, call2, overlap>>

\* Time moves on once the clock has been read.
Tick == now' = IF now < MaxClock THEN now + 1 ELSE now

\* decide after graph.invoke: the report is built from the final state and returned.
DecideReturn ==
    /\ pc = END
    /\ IF DecisionOutput_raises(st)
       THEN /\ pc' = "raised"
            /\ report' = None
       ELSE /\ pc' = "returned"
            /\ report' = Some(IF impl = "enhanced" THEN DecisionOutput(st.field_id, st)
                              ELSE DecisionOutput_base(st.field_id, st))
    /\ Tick
    /\ UNCHANGED <<impl, max_sensor_retries, state, reads, trace, prev, call2, overlap>>

Next ==
    \/ \E field_id \in FieldIds : Decide(field_id)
    \/ RetrieveField
    \/ FetchSensor
    \/ Validate
    \/ Maintenance
    \/ DecideReturn

Spec == Init /\ [][Next]_vars

\* graph.invoke and decide run synchronously to completion: every step of a
\* call in flight is eventually taken.  Starting a call is up to the caller.
FairSpec ==
    /\ Spec
    /\ WF_vars(RetrieveField)
    /\ WF_vars(FetchSensor)
    /\ WF_vars(Validate)
    /\ WF_vars(Maintenance)
    /\ WF_vars(DecideReturn)

-----------------------------------------------------------------------------
(* Two calls one after the other *)

\* The caller notes what the finished call was given and what it returned, and
\* calls decide again for the same field.
DecideAgain ==
    /\ pc \in {"returned", "raised"}
    /\ prev = None
    /\ prev' = Some([field_id |-> st.field_id, reads |-> reads, report |-> report])
    /\ Invoke(st.field_id)

\* In the second call the sensor answers what it answered in the first.
ReplaySensor ==
    /\ prev # None
    /\ Len(reads) < Len(prev[1].reads)
    /\ ReadSensor(prev[1].reads[Len(reads) + 1])

ReplayNext ==
    \/ prev = None /\ pc = "idle" /\ \E field_id \in FieldIds : Decide(field_id)
    \/ RetrieveField
    \/ prev = None /\ FetchSensor
    \/ ReplaySensor
    \/ Validate
    \/ Maintenance
    \/ DecideReturn
    \/ DecideAgain

\* One agent, one call, then the same call again.
ReplaySpec == Init /\ [][ReplayNext]_vars

-----------------------------------------------------------------------------
(* Two calls at the same time *)

\* The AgentState of the second call.
st2 == state2[1]

\* One node of the graph: its update merged into the state it was given.
Node(node, s, reading) ==
    AgentState(s,
        CASE node = "retrieve_field" ->
                IF impl = "enhanced" THEN retrieve_field(s) ELSE retrieve_field_data(s)
          [] node = "fetch_sensor" ->
                IF impl = "enhanced" THEN fetch_sensor(s, reading)
                ELSE fetch_sensor_data(s, reading)
          [] node = "validate" ->
                IF impl = "enhanced" THEN validate(s) ELSE validate_and_decide(s)
          [] node = "maintenance" ->
                IF impl = "enhanced" THEN maintenance(s) ELSE handle_maintenance_required(s))

\* The node ends the call with a Python error.
Raises(node, s) ==
    /\ node = "validate"
    /\ IF impl = "enhanced" THEN validate_raises(s) ELSE validate_and_decide_raises(s)

\* The second thread shares a mutable errors list with the first.
Decide2_shared_errors(field_id) ==
    /\ pc2 \in {"idle", "returned", "raised"}
    /\ LET s0 == IF impl = "enhanced" THEN initial_state(field_id, max_sensor_retries)
                 ELSE initial_state_base(field_id, max_sensor_retries)
           s1 == [s0 EXCEPT !.errors = IF state # None THEN st.errors ELSE <<>>]
       IN  /\ state2' = Some(s1)
           /\ pc2' = Graph("__start__", s1)
    /\ reads2' = <<>>
    /\ report2' = None
    /\ overlap' = FALSE
    /\ UNCHANGED <<impl, max_sensor_retries, pc, state, reads, trace, report, now, prev>>

\* decide(field_id) on a second thread: its initial_state is a local of the call.
Decide2(field_id) ==
    /\ pc2 \in {"idle", "returned", "raised"}
    /\ LET s0 == IF impl = "enhanced" THEN initial_state(field_id, max_sensor_retries)
                 ELSE initial_state_base(field_id, max_sensor_retries)
       IN  /\ state2' = Some(s0)
           /\ pc2' = Graph("__start__", s0)
    /\ reads2' = <<>>
    /\ report2' = None
    /\ overlap' = FALSE
    /\ UNCHANGED <<impl, max_sensor_retries, pc, state, reads, trace, report, now, prev>>

\* A node other than fetch_sensor run by the second call.
Step2(node) ==
    /\ pc2 = node
    /\ IF Raises(node, st2)
       THEN /\ pc2' = "raised"
            /\ state2' = state2
       ELSE LET s1 == Node(node, st2, None)
            IN  /\ state2' = Some(s1)
                /\ pc2' = Graph(node, s1)
    /\ UNCHANGED <<impl, max_sensor_retries, pc, state, reads, trace, report, now, prev,
                   reads2, report2, overlap>>

RetrieveField2 == Step2("retrieve_field")

\* Node fetch_sensor run by the second call, the sensor answering `reading`.
ReadSensor2(reading) ==
    /\ pc2 = "fetch_sensor"
    /\ Len(reads2) < MaxReads
    /\ LET s1 == Node("fetch_sensor", st2, reading)
       IN  /\ state2' = Some(s1)
           /\ pc2' = Graph("fetch_sensor", s1)
    /\ reads2' = Append(reads2, reading)
    /\ overlap' = (overlap \/ (pc = "fetch_sensor" /\ reads # <<>>))
    /\ UNCHANGED <<impl, max_sensor_retries, pc, state, reads, trace, report, now, prev,
                   report2>>

Validate2 == Step2("validate")

Maintenance2 == Step2("maintenance")

\* The second call builds its report from its own final state.
DecideReturn2 ==
    /\ pc2 = END
    /\ IF DecisionOutput_raises(st2)
       THEN /\ pc2' = "raised"
            /\ report2' = None
       ELSE /\ pc2' = "returned"
            /\ report2' = Some(IF impl = "enhanced" THEN DecisionOutput(st2.field_id, st2)
                               ELSE DecisionOutput_base(st2.field_id, st2))
    /\ Tick
    /\ UNCHANGED <<impl, max_sensor_retries, pc, state, reads, trace, report, prev,
                   state2, reads2, overlap>>

\* Fields the two callers ask about: one in the catalog, one not.
ConcFieldIds == {12, 999}

\* What the sensor answers while two calls run: nothing, field 12's stored
\* reading, a reading above its range, a value no sensor can measure.
ConcResponses == {None, Some(CURRENT_READINGS[12]), Some(FIELDS[12].max_moisture + 1), Some(-500)}

ConcNext ==
    \/ \E field_id \in ConcFieldIds : Decide(field_id)
    \/ RetrieveField
    \/ \E reading \in ConcResponses : ReadSensor(reading)
    \/ Validate
    \/ Maintenance
    \/ DecideReturn
    \/ \E field_id \in ConcFieldIds : Decide2(field_id)
    \/ RetrieveField2
    \/ \E reading \in ConcResponses : ReadSensor2(reading)
    \/ Validate2
    \/ Maintenance2
    \/ DecideReturn2

\* One agent called from two threads; their steps interleave freely.
ConcSpec == Init /\ [][ConcNext]_vars

TypeOK ==
    /\ impl \in {"base", "enhanced"}
    /\ max_sensor_retries \in RetryLimits
    /\ pc \in {"idle", "retrieve_field", "fetch_sensor", "validate", "maintenance", END,
               "returned", "raised"}
    /\ Len(state) <= 1
    /\ Len(report) <= 1
    /\ now \in 0..MaxClock
    /\ Len(prev) <= 1
    /\ pc2 \in {"idle", "retrieve_field", "fetch_sensor", "validate", "maintenance", END,
                "returned", "raised"}
    /\ Len(state2) <= 1
    /\ Len(report2) <= 1
    /\ overlap \in BOOLEAN


-----------------------------------------------------------------------------
(* Vocabulary of the properties *)

\* The report of the call that has returned.
rep == report[1]

InFlight == pc \in {"retrieve_field", "fetch_sensor", "validate", "maintenance", END}

Decisions == {"IRRIGATE", "DO_NOT_IRRIGATE", "MAINTENANCE_REQUIRED"}

NoResponse(r) == r = None
OutOfRange(r) == r # None /\ (r[1] < 0 \/ r[1] > 1000)
Valid(r) == r # None /\ 0 <= r[1] /\ r[1] <= 1000

AllNoResponse == \A i \in 1..Len(reads) : NoResponse(reads[i])

\* The text `text` contains the text `part` (both token sequences).
Contains(text, part) ==
    \E i \in 0..(Len(text) - Len(part)) : SubSeq(text, i + 1, i + Len(part)) = part

\* A "not found" message for the field ID: it says "not found" and names the ID.
NotFoundMessage(e, field_id) ==
    /\ Contains(e, <<"not", "found">>)
    /\ \E i \in 1..Len(e) : e[i] \in {StrInt(field_id), "#" \o StrInt(field_id)}

\* The threshold rule a validate reason cites, whichever file worded it:
\* "below minimum" / "above (exceeds) maximum" / "below optimal" /
\* "within optimal range" ("is optimal").
RuleCited(reason) ==
    IF "minimum" \in Range(reason) THEN "below minimum"
    ELSE IF "maximum" \in Range(reason) THEN "above maximum"
    ELSE IF "below" \in Range(reason) /\ "optimal" \in Range(reason) THEN "below optimal"
    ELSE IF "optimal" \in Range(reason) THEN "within optimal"
    ELSE "none"

\* The call has returned a report decided by the validate step.
Validated == pc = "returned" /\ "validate" \in Range(trace)

-----------------------------------------------------------------------------
(* Properties *)

\* C1: with a retry limit >= 1 and any sensor responses, a decide call in
\* flight eventually returns; it has returned exactly when it has produced
\* its (one) report, and it never stays in fetch_sensor forever.
C1_DecideTerminates ==
    /\ [](report # None <=> pc = "returned")
    /\ [](Len(report) <= 1)
    /\ (InFlight /\ max_sensor_retries >= 1) ~> (pc = "returned" /\ Len(report) = 1)

\* C1 witness: a call that was retried up to a limit of at least 2 has returned.
C1_Witness ==
    /\ pc = "returned" /\ max_sensor_retries >= 2
    /\ Len(reads) = max_sensor_retries /\ AllNoResponse

\* C2: with a retry limit >= 1 no Python error leaves decide, the decision is
\* set whenever the graph has ended, and the report's decision is one of the three.
C2_NoErrorEscapes ==
    max_sensor_retries >= 1 =>
        /\ pc # "raised"
        /\ (pc = END => st.decision # None)
        /\ (pc = "returned" => rep.decision \in Decisions)

\* C2 witness: a call that saw a timeout and then an out-of-range value has returned.
C2_Witness ==
    /\ pc = "returned" /\ max_sensor_retries >= 1
    /\ Len(reads) = 2 /\ NoResponse(reads[1]) /\ OutOfRange(reads[2])
    /\ rep.decision = "MAINTENANCE_REQUIRED"

\* C3: with a retry limit >= 1 the number of sensor reads made so far, and
\* the sensor_attempts counter, never exceed the retry limit.
C3_AttemptsBounded ==
    (max_sensor_retries >= 1 /\ state # None) =>
        /\ st.sensor_attempts <= st.max_sensor_retries
        /\ Len(reads) <= max_sensor_retries
        /\ st.max_sensor_retries = max_sensor_retries

\* C3 witness: the limit (at least 2) is reached by timeouts.
C3_Witness ==
    /\ pc = "maintenance" /\ max_sensor_retries >= 2
    /\ st.sensor_attempts = max_sensor_retries

\* C4: field found and every read NoResponse: the report has sensor_attempts
\* equal to the retry limit, decision MAINTENANCE_REQUIRED, at least
\* retry-limit errors, and an error that mentions a timeout.
C4_AllTimeouts ==
    (pc = "returned" /\ max_sensor_retries >= 1 /\ st.field_info # None /\ AllNoResponse) =>
        /\ rep.sensor_attempts = max_sensor_retries
        /\ rep.decision = "MAINTENANCE_REQUIRED"
        /\ Len(rep.errors) >= max_sensor_retries
        /\ \E i \in 1..Len(rep.errors) : "timeout" \in Range(rep.errors[i])

\* C4 witness: three timeouts under a limit of 3, field 12.
C4_Witness ==
    /\ pc = "returned" /\ max_sensor_retries = 3 /\ st.field_id = 12
    /\ reads = <<None, None, None>>

\* C5: an out-of-range reading on read k is the last read of the call: the
\* workflow goes to maintenance, sensor_attempts stays k, and the decision is
\* MAINTENANCE_REQUIRED.
C5_OutOfRangeNotRetried ==
    \A k \in 1..Len(reads) :
        OutOfRange(reads[k]) =>
            /\ k = Len(reads)
            /\ pc \in {"maintenance", END, "returned"}
            /\ st.sensor_attempts = k
            /\ "validate" \notin Range(trace)
            /\ (pc = END => st.decision = Some("MAINTENANCE_REQUIRED"))
            /\ (pc = "returned" =>
                    /\ rep.decision = "MAINTENANCE_REQUIRED"
                    /\ rep.sensor_attempts = k)

\* C5 witness: the first response is out of range while the limit is 3.
C5_Witness ==
    /\ pc = "returned" /\ max_sensor_retries = 3
    /\ Len(reads) = 1 /\ OutOfRange(reads[1])
    /\ rep.sensor_attempts = 1

\* C6: for a field ID absent from the table the report is MAINTENANCE_REQUIRED,
\* its errors contain a "not found" message for the ID, the reason contains
\* that message, and current_moisture and optimal_range are absent.
C6_FieldNotFound ==
    (pc = "returned" /\ st.field_id \notin DOMAIN FIELDS) =>
        /\ rep.decision = "MAINTENANCE_REQUIRED"
        /\ rep.errors # <<>>
        /\ \E i \in 1..Len(rep.errors) :
              /\ NotFoundMessage(rep.errors[i], rep.field_id)
              /\ Contains(rep.reason, rep.errors[i])
        /\ rep.current_moisture = None
        /\ rep.optimal_range = None

\* C6 witness: decide(999) has returned.
C6_Witness == pc = "returned" /\ rep.field_id = 999

\* C7: the sensor is read only after the lookup returned a record; for an
\* absent field it is never read and the report has sensor_attempts = 0.
C7_LookupBeforeSensor ==
    /\ (pc = "fetch_sensor" \/ reads # <<>>) =>
            /\ st.field_info # None
            /\ st.field_id \in DOMAIN FIELDS
            /\ trace[1] = "retrieve_field"
    /\ (state # None /\ st.field_id \notin DOMAIN FIELDS) =>
            /\ reads = <<>>
            /\ "fetch_sensor" \notin Range(trace)
            /\ st.sensor_attempts = 0
            /\ (pc = "returned" => rep.sensor_attempts = 0)

\* C7 witness: an absent field went from the lookup straight to maintenance.
C7_Witness ==
    /\ pc = "returned" /\ st.field_id \notin DOMAIN FIELDS
    /\ trace = <<"retrieve_field", "maintenance">>

\* C8: validate runs only on a found field and a reading within [0, 100]
\* that is the last sensor response of the call.
C8_ValidateAfterValidRead ==
    (pc = "validate" \/ "validate" \in Range(trace)) =>
        /\ st.field_info # None
        /\ st.moisture_reading # None
        /\ 0 <= st.moisture_reading[1] /\ st.moisture_reading[1] <= 1000
        /\ reads # <<>>
        /\ reads[Len(reads)] = st.moisture_reading

\* C8 witness: validate is about to run on a reading obtained on a retry.
C8_Witness ==
    /\ pc = "validate" /\ Len(reads) = 2 /\ NoResponse(reads[1])

\* C9: the decision follows the rules in priority order, first match wins:
\* m < min IRRIGATE (below minimum); else m > max DO_NOT_IRRIGATE (above
\* maximum); else m < optimal IRRIGATE (below optimal); else DO_NOT_IRRIGATE
\* (within optimal range).
C9_ThresholdPriority ==
    Validated =>
        LET m == rep.current_moisture[1]
            f == st.field_info[1]
        IN  (f.min_moisture <= f.optimal_moisture /\ f.optimal_moisture <= f.max_moisture) =>
                IF m < f.min_moisture
                THEN rep.decision = "IRRIGATE" /\ RuleCited(rep.reason) = "below minimum"
                ELSE IF m > f.max_moisture
                THEN rep.decision = "DO_NOT_IRRIGATE" /\ RuleCited(rep.reason) = "above maximum"
                ELSE IF m < f.optimal_moisture
                THEN rep.decision = "IRRIGATE" /\ RuleCited(rep.reason) = "below optimal"
                ELSE rep.decision = "DO_NOT_IRRIGATE"
                     /\ RuleCited(rep.reason) = "within optimal"

\* C9 witness: a valid reading below the field's minimum was decided.
C9_Witness ==
    /\ Validated
    /\ rep.current_moisture[1] < st.field_info[1].min_moisture
    /\ rep.decision = "IRRIGATE"

\* C10: boundary readings: m = optimal gives DO_NOT_IRRIGATE; m = max gives
\* DO_NOT_IRRIGATE with the within-optimal reason; m = min is not classified
\* below minimum.
C10_Boundaries ==
    Validated =>
        LET m == rep.current_moisture[1]
            f == st.field_info[1]
        IN  /\ (m = f.optimal_moisture => rep.decision = "DO_NOT_IRRIGATE")
            /\ (m = f.max_moisture =>
                    /\ rep.decision = "DO_NOT_IRRIGATE"
                    /\ RuleCited(rep.reason) = "within optimal")
            /\ (m = f.min_moisture => RuleCited(rep.reason) # "below minimum")

\* C10 witness: a reading exactly at the field's maximum was decided.
C10_Witness ==
    /\ Validated
    /\ rep.current_moisture[1] = st.field_info[1].max_moisture


\* C11 as stated: field 12 with a valid reading of 32.1 gives IRRIGATE with a
\* reason that cites "below optimal".
C11_BelowOptimalCited ==
    (Validated /\ st.field_id = 12 /\ rep.current_moisture = Some(321)) =>
        /\ rep.decision = "IRRIGATE"
        /\ Contains(rep.reason, <<"below", "optimal">>)

\* C11: field 12 (min 35, max 60, optimal 47.5) with a valid reading of 32.1
\* gives IRRIGATE with a reason that cites "below minimum": 32.1 is below the
\* field's minimum, and that rule is tested first.
C11_Field12Reading321 ==
    (Validated /\ st.field_id = 12 /\ rep.current_moisture = Some(321)) =>
        /\ rep.optimal_range = Some(<<350, 600>>)
        /\ st.field_info[1].optimal_moisture = 475
        /\ rep.decision = "IRRIGATE"
        /\ Contains(rep.reason, <<"below", "minimum">>)
        /\ ~Contains(rep.reason, <<"below", "optimal">>)

\* C11 witness: decide(12) has returned on a reading of 32.1.
C11_Witness ==
    /\ Validated /\ st.field_id = 12 /\ rep.current_moisture = Some(321)

\* Confidence by distance d (in tenths) of the reading from the optimum.
DistanceConfidence(d) ==
    IF d < 50 THEN "HIGH" ELSE IF d < 100 THEN "MEDIUM" ELSE "LOW"

\* The report decides to irrigate or not (it is not a maintenance report).
Decided == pc = "returned" /\ rep.decision \in {"IRRIGATE", "DO_NOT_IRRIGATE"}

\* C12 as stated: every IRRIGATE / DO_NOT_IRRIGATE report has its confidence
\* derived from d = |moisture - optimal|.
C12_ConfidenceByDistance ==
    Decided =>
        rep.confidence =
            DistanceConfidence(Abs(rep.current_moisture[1] - st.field_info[1].optimal_moisture))

\* C12: in irrigation_agent_enhanced.py the confidence of an IRRIGATE /
\* DO_NOT_IRRIGATE report is HIGH for d < 5, MEDIUM for 5 <= d < 10, LOW for
\* d >= 10; irrigation_agent.py reports HIGH for every such report.
C12_ConfidencePerFile ==
    Decided =>
        LET d == Abs(rep.current_moisture[1] - st.field_info[1].optimal_moisture) IN
        IF impl = "enhanced"
        THEN /\ (d < 50 => rep.confidence = "HIGH")
             /\ (50 <= d /\ d < 100 => rep.confidence = "MEDIUM")
             /\ (d >= 100 => rep.confidence = "LOW")
        ELSE rep.confidence = "HIGH"

\* C12 witness: a reading far below the minimum gives IRRIGATE with LOW confidence.
C12_Witness ==
    /\ Decided /\ impl = "enhanced"
    /\ rep.current_moisture[1] <= st.field_info[1].min_moisture - 100
    /\ rep.decision = "IRRIGATE" /\ rep.confidence = "LOW"

\* Failures observed so far in this call: a lookup that found nothing, and
\* every sensor read that gave no value within [0, 100].
NumFailures ==
    (IF st.field_id \notin DOMAIN FIELDS /\ "retrieve_field" \in Range(trace) THEN 1 ELSE 0)
    + Cardinality({i \in 1..Len(reads) : ~Valid(reads[i])})

\* The fixed text irrigation_agent.py puts before the joined errors.
ReasonPrefix ==
    IF impl = "base" THEN <<"System", "error", "requires", "manual", "intervention:">>
    ELSE <<>>

\* C13: the maintenance step sets MAINTENANCE_REQUIRED and makes the reason
\* the errors accumulated so far (one per failure) joined in order with "; "
\* (after the fixed prefix in irrigation_agent.py); the report carries that
\* reason, and its confidence is "N/A" exactly when it is a maintenance report.
C13_MaintenanceReason ==
    /\ [][pc = "maintenance" =>
            /\ Len(st.errors) = NumFailures
            /\ state'[1].decision = Some("MAINTENANCE_REQUIRED")
            /\ state'[1].reason = ReasonPrefix \o Join(st.errors)]_vars
    /\ [](pc = "returned" =>
            /\ rep.reason = st.reason
            /\ (rep.decision = "MAINTENANCE_REQUIRED" <=> "maintenance" \in Range(trace))
            /\ (rep.confidence = "N/A" <=> rep.decision = "MAINTENANCE_REQUIRED"))

\* C13 witness: a maintenance report after two timeouts and an out-of-range value.
C13_Witness ==
    /\ pc = "returned" /\ rep.decision = "MAINTENANCE_REQUIRED"
    /\ Len(reads) = 3 /\ OutOfRange(reads[3])
    /\ rep.confidence = "N/A"

\* Number of times the node `node` has run in this call.
Entered(node) == Cardinality({i \in 1..Len(trace) : trace[i] = node})

\* C14: sensor_attempts is 0 until the sensor is read and equals the number of
\* sensor reads (entries of fetch_sensor) at every point of the call; the
\* report carries that number.
C14_AttemptsCountReads ==
    state # None =>
        /\ st.sensor_attempts = Len(reads)
        /\ st.sensor_attempts = Entered("fetch_sensor")
        /\ (pc = "returned" => rep.sensor_attempts = Len(reads))

\* C14 witness: a report after three sensor reads, the last one valid.
C14_Witness ==
    /\ pc = "returned" /\ Len(reads) = 3 /\ Valid(reads[3])
    /\ rep.sensor_attempts = 3

\* The threshold rule of the specification.
ThresholdDecision(m, f) ==
    IF m < f.min_moisture THEN "IRRIGATE"
    ELSE IF m > f.max_moisture THEN "DO_NOT_IRRIGATE"
    ELSE IF m < f.optimal_moisture THEN "IRRIGATE"
    ELSE "DO_NOT_IRRIGATE"

\* The sensor gave no response k times (k below the retry limit) and then a
\* value within [0, 100].
Recovered ==
    /\ reads # <<>>
    /\ Valid(reads[Len(reads)])
    /\ \A i \in 1..(Len(reads) - 1) : NoResponse(reads[i])
    /\ Len(reads) - 1 < max_sensor_retries

\* C15: after k < limit NoResponse reads and then a valid value the decision
\* is the threshold rule's for that value (never MAINTENANCE_REQUIRED),
\* sensor_attempts = k + 1 and current_moisture is the value.
C15_TransientRecovered ==
    (pc = "returned" /\ Recovered) =>
        /\ rep.decision = ThresholdDecision(reads[Len(reads)][1], st.field_info[1])
        /\ rep.decision # "MAINTENANCE_REQUIRED"
        /\ rep.sensor_attempts = Len(reads)
        /\ rep.current_moisture = reads[Len(reads)]

\* C15 witness: two timeouts, then a valid value on the third and last allowed read.
C15_Witness ==
    /\ pc = "returned" /\ Recovered
    /\ Len(reads) = 3 /\ max_sensor_retries = 3

\* C18 as stated: at every point of the call, and in the report, errors
\* holds exactly one entry per failure observed so far.
C18_OneErrorPerFailure ==
    state # None =>
        /\ Len(st.errors) = NumFailures
        /\ (pc = "returned" => Len(rep.errors) = NumFailures)

\* The message of a timeout that is retried: "timeout (on) attempt k".
AttemptMessage(e, k) ==
    /\ "timeout" \in Range(e)
    /\ Contains(e, <<"attempt", StrInt(k)>>)
    /\ "after" \notin Range(e)

\* The message of the timeout that exhausts the retries: "timeout after k attempts".
AfterMessage(e, k) == Contains(e, <<"timeout", "after", StrInt(k), "attempts">>)

\* C19: found field, limit L >= 1, sensor never responding: while the sensor
\* is being read and when the workflow is routed to maintenance, errors holds
\* one timeout message per read in attempt order, "attempt k" for k < L and
\* "after L attempts" for the L-th; fetch_sensor is re-entered exactly while
\* fewer than L reads were made, and maintenance follows the L-th.
C19_TimeoutMessages ==
    (/\ pc \in {"fetch_sensor", "maintenance"}
     /\ max_sensor_retries >= 1
     /\ st.field_info # None
     /\ AllNoResponse) =>
        /\ Len(st.errors) = Len(reads)
        /\ \A k \in 1..Len(reads) :
              IF k < max_sensor_retries
              THEN AttemptMessage(st.errors[k], k)
              ELSE AfterMessage(st.errors[k], max_sensor_retries)
        /\ (pc = "fetch_sensor" <=> Len(reads) < max_sensor_retries)
        /\ (pc = "maintenance" <=> Len(reads) = max_sensor_retries)

\* C19 witness: three timeouts under a limit of 3, about to enter maintenance.
C19_Witness ==
    /\ pc = "maintenance" /\ max_sensor_retries = 3
    /\ Len(reads) = 3 /\ AllNoResponse
    /\ AfterMessage(st.errors[3], 3)

\* C20: with a retry limit >= 1 the report is MAINTENANCE_REQUIRED exactly
\* when the field was not found, or a read was out of range, or the sensor
\* gave no response on retry-limit consecutive reads; a call with a read
\* within [0, 100] never reports it, and such a report has errors.
C20_MaintenanceIffFailure ==
    (pc = "returned" /\ max_sensor_retries >= 1) =>
        /\ rep.decision = "MAINTENANCE_REQUIRED" <=>
              \/ st.field_id \notin DOMAIN FIELDS
              \/ \E i \in 1..Len(reads) : OutOfRange(reads[i])
              \/ (Len(reads) = max_sensor_retries /\ AllNoResponse)
        /\ ((\E i \in 1..Len(reads) : Valid(reads[i])) =>
                rep.decision # "MAINTENANCE_REQUIRED")
        /\ (rep.decision = "MAINTENANCE_REQUIRED" => rep.errors # <<>>)

\* C20 witness: a maintenance report caused by an out-of-range read after a timeout.
C20_Witness ==
    /\ pc = "returned" /\ max_sensor_retries >= 2
    /\ rep.decision = "MAINTENANCE_REQUIRED"
    /\ Len(reads) = 2 /\ NoResponse(reads[1]) /\ reads[2] = Some(1001)

-----------------------------------------------------------------------------
(* C16 *)

\* A report without its timestamp.
WithoutTimestamp(r) ==
    [field_id |-> r.field_id, decision |-> r.decision,
     current_moisture |-> r.current_moisture, optimal_range |-> r.optimal_range,
     reason |-> r.reason, confidence |-> r.confidence,
     sensor_attempts |-> r.sensor_attempts, errors |-> r.errors]

\* The call before this one, as the caller noted it.
before == prev[1]

\* C16: two decide calls on the same agent for the same field, the sensor giving
\* the same responses in the same order, end the same way: the second call
\* enters the graph with no errors, no attempts, no moisture and the initial
\* stage, it reads the sensor exactly as often as the first, and its report
\* equals the first call's report in every field except the timestamp.
C16_Deterministic ==
    prev # None =>
        /\ pc = "retrieve_field" =>
              /\ st.errors = <<>> /\ st.sensor_attempts = 0
              /\ st.moisture_reading = None /\ st.field_info = None
              /\ st.decision = None /\ st.reason = <<>>
              /\ st.stage \in {"init", "initialized"}
        /\ pc = "fetch_sensor" => Len(reads) < Len(before.reads)
        /\ pc \in {"returned", "raised"} =>
              /\ reads = before.reads
              /\ (pc = "raised") = (before.report = None)
              /\ pc = "returned" =>
                    WithoutTimestamp(rep) = WithoutTimestamp(before.report[1])

\* The second call returned after a failed read and a valid one; its errors,
\* attempt count and moisture are those of the first call, its timestamp is not.
C16_Witness ==
    /\ prev # None /\ pc = "returned" /\ impl = "enhanced"
    /\ Len(reads) = 2 /\ NoResponse(reads[1]) /\ Valid(reads[2])
    /\ rep.decision = "IRRIGATE" /\ rep.sensor_attempts = 2 /\ rep.errors # <<>>
    /\ rep.timestamp # before.report[1].timestamp

-----------------------------------------------------------------------------
(* C17 *)

\* graph.invoke run from `node` with nothing else going on, the sensor
\* answering `responses` in order: the final state, or None after a Python error.
RECURSIVE graph_invoke(_, _, _)
graph_invoke(node, s, responses) ==
    IF node = END THEN Some(s)
    ELSE IF Raises(node, s) THEN None
    ELSE IF node = "fetch_sensor"
         THEN IF responses = <<>> THEN None
              ELSE LET s1 == Node(node, s, Head(responses))
                   IN  graph_invoke(Graph(node, s1), s1, Tail(responses))
         ELSE LET s1 == Node(node, s, None)
              IN  graph_invoke(Graph(node, s1), s1, responses)

\* decide(field_id) run alone: the report without its timestamp, or None after a
\* Python error.
Alone(field_id, responses) ==
    LET s0 == IF impl = "enhanced" THEN initial_state(field_id, max_sensor_retries)
              ELSE initial_state_base(field_id, max_sensor_retries)
        final == graph_invoke(Graph("__start__", s0), s0, responses)
    IN  IF final = None \/ DecisionOutput_raises(final[1]) THEN None
        ELSE Some(WithoutTimestamp(IF impl = "enhanced"
                                   THEN DecisionOutput(field_id, final[1])
                                   ELSE DecisionOutput_base(field_id, final[1])))

\* C17: when two decide calls run on one agent with their steps interleaved in
\* any order, each call ends as it would have ended alone with the sensor
\* responses it received: the same report (timestamp aside), or the same error.
C17_Independent ==
    /\ pc = "returned" => Some(WithoutTimestamp(rep)) = Alone(st.field_id, reads)
    /\ pc = "raised" => Alone(st.field_id, reads) = None
    /\ pc2 = "returned" => Some(WithoutTimestamp(report2[1])) = Alone(st2.field_id, reads2)
    /\ pc2 = "raised" => Alone(st2.field_id, reads2) = None

\* Both calls asked about field 12 and read the sensor in turns; one recovered
\* from a failed read and decided, the other ran out of attempts.
C17_Witness ==
    /\ overlap /\ pc = "returned" /\ pc2 = "returned"
    /\ st.field_id = 12 /\ st2.field_id = 12
    /\ Len(reads) = 2 /\ NoResponse(reads[1]) /\ Valid(reads[2])
    /\ Len(reads2) = 2 /\ \A i \in 1..2 : NoResponse(reads2[i])
    /\ rep.decision = "IRRIGATE" /\ rep.sensor_attempts = 2
    /\ report2[1].decision = "MAINTENANCE_REQUIRED" /\ report2[1].sensor_attempts = 2

-----------------------------------------------------------------------------
(* C21 *)

\* The graph has ended or decide has left (with a report or a Python error).
Ended == pc \in {END, "returned", "raised"}

\* C21: in one decide call the field lookup runs first and once, validate and
\* maintenance together run at most once, whichever of them runs is the last
\* step of the call, and a call whose graph has ended has run the lookup
\* exactly once and exactly one of validate and maintenance exactly once.
C21_OneLookupOneFinalStep ==
    /\ Entered("retrieve_field") <= 1
    /\ Entered("validate") + Entered("maintenance") <= 1
    /\ trace # <<>> => trace[1] = "retrieve_field"
    /\ \A i \in 1..Len(trace) : trace[i] \in {"validate", "maintenance"} => i = Len(trace)
    /\ (state # None /\ Ended) =>
          /\ Entered("retrieve_field") = 1
          /\ Entered("validate") + Entered("maintenance") = 1

\* A call that read the sensor twice and then validated has returned.
C21_Witness ==
    /\ pc = "returned"
    /\ trace = <<"retrieve_field", "fetch_sensor", "fetch_sensor", "validate">>

-----------------------------------------------------------------------------
(* C22 *)

\* The sensor's latest response in this call.
last == reads[Len(reads)]

\* C22: a value the sensor returned is out of range exactly when it is below
\* 0 or above 100, whatever the field: right after the read a value in
\* [0, 100] (0 and 100 included) has the call at validate and any other value
\* has it at maintenance, never back at the sensor; the value is stored as it
\* came, and the report after an out-of-range value is MAINTENANCE_REQUIRED
\* with that very value as current_moisture.
C22_OutOfRangeExact ==
    (reads # <<>> /\ last # None) =>
        /\ pc \in {"fetch_sensor", "validate", "maintenance"} =>
              /\ (pc = "validate") = (0 <= last[1] /\ last[1] <= 1000)
              /\ (pc = "maintenance") = (last[1] < 0 \/ last[1] > 1000)
              /\ st.moisture_reading = last
        /\ (pc = "returned" /\ (last[1] < 0 \/ last[1] > 1000)) =>
              /\ rep.decision = "MAINTENANCE_REQUIRED"
              /\ rep.current_moisture = last

\* A report after the sensor returned 100.1: the value is kept as it came.
C22_Witness ==
    /\ pc = "returned" /\ reads = <<Some(1001)>>
    /\ rep.decision = "MAINTENANCE_REQUIRED" /\ rep.current_moisture = Some(1001)

-----------------------------------------------------------------------------
(* C23 *)

\* C23: a report that says IRRIGATE or DO_NOT_IRRIGATE carries a
\* current_moisture within [0, 100], an optimal_range, and a sensor_attempts
\* of at least 1.
C23_DecidedReportComplete ==
    (pc = "returned" /\ rep.decision \in {"IRRIGATE", "DO_NOT_IRRIGATE"}) =>
        /\ rep.current_moisture # None
        /\ 0 <= rep.current_moisture[1] /\ rep.current_moisture[1] <= 1000
        /\ rep.optimal_range # None
        /\ rep.sensor_attempts >= 1

\* A DO_NOT_IRRIGATE report after one failed read and a reading of exactly 100.
C23_Witness ==
    /\ pc = "returned" /\ rep.decision = "DO_NOT_IRRIGATE"
    /\ reads = <<None, Some(1000)>>
    /\ rep.current_moisture = Some(1000) /\ rep.sensor_attempts = 2

-----------------------------------------------------------------------------
(* C24 *)

\* What the agent's field catalog answers for the ID.
Lookup(field_id) ==
    IF impl = "enhanced" THEN get_field_info(field_id) ELSE get_field_info_base(field_id)

\* C24: a report has an optimal_range exactly when the catalog knows the
\* field, and then it is that record's (min, max) pair; a report after
\* nothing but timeouts on a known field has the optimal_range and no
\* current_moisture.
C24_OptimalRangeIffFound ==
    pc = "returned" =>
        /\ (rep.optimal_range # None) = (Lookup(rep.field_id) # None)
        /\ rep.optimal_range # None =>
              rep.optimal_range[1] = <<Lookup(rep.field_id)[1].min_moisture,
                                       Lookup(rep.field_id)[1].max_moisture>>
        /\ (Lookup(rep.field_id) # None /\ reads # <<>> /\ AllNoResponse) =>
              /\ rep.optimal_range # None
              /\ rep.current_moisture = None

\* Field 20 and two timeouts: the report has (40, 65) and no moisture.
C24_Witness ==
    /\ pc = "returned" /\ rep.field_id = 20 /\ reads = <<None, None>>
    /\ rep.optimal_range = Some(<<400, 650>>) /\ rep.current_moisture = None

-----------------------------------------------------------------------------
(* C25 *)

\* C25: in irrigation_agent.py the confidence of a report decided by validate
\* is the confidence validate_and_decide computed for the rule that matched:
\* MEDIUM for a reading within range but below optimal, HIGH otherwise.
C25_ConfidenceFromValidate ==
    (impl = "base" /\ Validated) =>
        rep.confidence = validate_and_decide_confidence(st)

-----------------------------------------------------------------------------
(* C26 *)

\* The other of the two files.
Other(file) == IF file = "enhanced" THEN "base" ELSE "enhanced"

\* One node of the named file's graph: its update merged into the state.
NodeOf(file, node, s, reading) ==
    AgentState(s,
        CASE node = "retrieve_field" ->
                IF file = "enhanced" THEN retrieve_field(s) ELSE retrieve_field_data(s)
          [] node = "fetch_sensor" ->
                IF file = "enhanced" THEN fetch_sensor(s, reading)
                ELSE fetch_sensor_data(s, reading)
          [] node = "validate" ->
                IF file = "enhanced" THEN validate(s) ELSE validate_and_decide(s)
          [] node = "maintenance" ->
                IF file = "enhanced" THEN maintenance(s) ELSE handle_maintenance_required(s))

\* The node of the named file ends the call with a Python error.
RaisesOf(file, node, s) ==
    /\ node = "validate"
    /\ IF file = "enhanced" THEN validate_raises(s) ELSE validate_and_decide_raises(s)

\* Next node of the named file's compiled graph.
GraphOf(file, node, s) ==
    IF file = "enhanced" THEN build_agent(node, s) ELSE build_irrigation_agent(node, s)

\* graph.invoke of the named file from `node`, the sensor answering `responses`
\* in order: the nodes run (after `steps`), the final state (None if the call
\* raised or the responses ran out) and the responses left unread.
RECURSIVE invoke_of(_, _, _, _, _)
invoke_of(file, node, s, responses, steps) ==
    IF node = END THEN [steps |-> steps, final |-> Some(s), unread |-> responses]
    ELSE IF RaisesOf(file, node, s) \/ (node = "fetch_sensor" /\ responses = <<>>)
    THEN [steps |-> Append(steps, node), final |-> None, unread |-> responses]
    ELSE IF node = "fetch_sensor"
         THEN LET s1 == NodeOf(file, node, s, Head(responses))
              IN  invoke_of(file, GraphOf(file, node, s1), s1, Tail(responses),
                            Append(steps, node))
         ELSE LET s1 == NodeOf(file, node, s, None)
              IN  invoke_of(file, GraphOf(file, node, s1), s1, responses, Append(steps, node))

\* decide(field_id) of the named file on an agent with the retry limit.
decide_of(file, field_id, retries, responses) ==
    LET s0 == IF file = "enhanced" THEN initial_state(field_id, retries)
              ELSE initial_state_base(field_id, retries)
        run == invoke_of(file, GraphOf(file, "__start__", s0), s0, responses, <<>>)
    IN  [steps |-> run.steps, unread |-> run.unread,
         report |-> IF run.final = None \/ DecisionOutput_raises(run.final[1]) THEN None
                    ELSE Some(IF file = "enhanced" THEN DecisionOutput(field_id, run.final[1])
                              ELSE DecisionOutput_base(field_id, run.final[1]))]

\* What the claim compares of a report.
Outcome(r) ==
    [decision |-> r.decision, sensor_attempts |-> r.sensor_attempts,
     current_moisture |-> r.current_moisture, optimal_range |-> r.optimal_range,
     errors |-> Len(r.errors)]

\* C26: whenever a call of one file has returned, the other file, given the
\* same field ID, retry limit and sensor responses, runs the same sequence of
\* steps, reads exactly those responses, and returns a report with the same
\* decision, sensor_attempts, current_moisture, optimal_range and number of errors.
C26_SameOutcome ==
    pc = "returned" =>
        LET other == decide_of(Other(impl), st.field_id, max_sensor_retries, reads)
        IN  /\ other.steps = trace
            /\ other.unread = <<>>
            /\ other.report # None
            /\ Outcome(other.report[1]) = Outcome(rep)

\* A call that failed once, then read an out-of-range value, has returned.
C26_Witness ==
    /\ pc = "returned" /\ reads = <<None, Some(1500)>>
    /\ rep.decision = "MAINTENANCE_REQUIRED" /\ rep.current_moisture = Some(1500)
    /\ Len(rep.errors) >= 2

-----------------------------------------------------------------------------
(* C27 *)

\* C27: an agent constructed with a retry limit of 0 or less still reads the
\* sensor for a found field, and exactly once: no call is at the sensor after
\* a read, a call whose graph has ended has made one read, and when that read
\* got no response the call goes to maintenance with the single error
\* "timeout after 1 attempts", sensor_attempts 1 (above the limit), and the
\* report is MAINTENANCE_REQUIRED with sensor_attempts 1.
C27_NonPositiveLimit ==
    (max_sensor_retries <= 0 /\ state # None /\ st.field_info # None) =>
        /\ st.max_sensor_retries = max_sensor_retries
        /\ Len(reads) <= 1
        /\ pc = "fetch_sensor" => reads = <<>>
        /\ Ended => Len(reads) = 1 /\ st.sensor_attempts = 1
        /\ reads = <<None>> =>
              /\ pc \in {"maintenance", END, "returned"}
              /\ st.sensor_attempts = 1 /\ st.sensor_attempts > max_sensor_retries
              /\ pc = "maintenance" =>
                    Len(st.errors) = 1 /\ AfterMessage(st.errors[1], 1)
              /\ pc = "returned" =>
                    /\ rep.decision = "MAINTENANCE_REQUIRED"
                    /\ rep.sensor_attempts = 1
                    /\ \A i \in 1..Len(rep.errors) : AfterMessage(rep.errors[i], 1)

\* An agent with retry limit -1 has returned after one unanswered read.
C27_Witness ==
    /\ pc = "returned" /\ max_sensor_retries = -1 /\ reads = <<None>>
    /\ rep.decision = "MAINTENANCE_REQUIRED" /\ rep.sensor_attempts = 1

-----------------------------------------------------------------------------
(* C28 *)

\* The step about to be taken is a node of the call in flight.
NodeStep == pc \in {"retrieve_field", "fetch_sensor", "validate", "maintenance"}

\* C28: a node of a call never changes field_id or max_sensor_retries; only the
\* lookup step changes field_info; only a sensor read that returned a value
\* changes moisture_reading; and a read that got no response leaves every key
\* but sensor_attempts, errors and stage as it was (it counts the attempt and
\* adds to errors).
C28_Frame ==
    [][NodeStep =>
        /\ st'.field_id = st.field_id
        /\ st'.max_sensor_retries = st.max_sensor_retries
        /\ st'.field_info # st.field_info => pc = "retrieve_field"
        /\ st'.moisture_reading # st.moisture_reading =>
              /\ pc = "fetch_sensor"
              /\ Len(reads') = Len(reads) + 1
              /\ reads'[Len(reads')] # None
              /\ st'.moisture_reading = reads'[Len(reads')]
        /\ (pc = "fetch_sensor" /\ Len(reads') = Len(reads) + 1
               /\ reads'[Len(reads')] = None) =>
              /\ st'.field_info = st.field_info
              /\ st'.moisture_reading = st.moisture_reading
              /\ st'.decision = st.decision
              /\ st'.reason = st.reason
              /\ st'.sensor_attempts # st.sensor_attempts
              /\ st'.errors # st.errors]_vars

\* The first read of a call got no response and is being retried: the
\* field_info of the lookup is in place and no moisture is stored.
C28_Witness ==
    /\ pc = "fetch_sensor" /\ reads = <<None>>
    /\ st.field_info # None /\ st.moisture_reading = None
    /\ st.sensor_attempts = 1 /\ Len(st.errors) = 1

====
